---- MODULE Spec2Model ----
(***************************************************************************)
(* A model of pretalx2tex.py: the text functions (escape_latex,            *)
(* get_wordlist, break_long_lines) as operators on texts, and the          *)
(* module-level script (loader loop, sort, render loop) as a state         *)
(* machine.                                                                *)
(*                                                                         *)
(* A text is a sequence of characters; a character is a one-character      *)
(* string.  Characters outside ASCII are written by their code point:      *)
(* "U+201E" and "U+201C" are the two curly opening quotes of               *)
(* latex_substitutions, "U+2013" is the en dash, "U+0060" is the backquote, *)
(* "U+00C4" .. "U+00FC" are the six umlaut letters of RE_VALID_WORD.       *)
(***************************************************************************)
EXTENDS Integers, Sequences, FiniteSets, TLC

VARIABLES
    args,           \* the parsed command line: format, workshops, postersession, day
    schedule,       \* the sessions of the export, in the order the loader visits them
    pc,             \* the script's position
    i,              \* loader loop: index of the next session
    talks,          \* the list `talks`
    template,       \* the variable `template`
    last_timeslot,  \* the variable `last_timeslot`
    wordlist,       \* the list `wordlist`
    k,              \* render loop: index of the next talk
    out,            \* what has been written to sys.stdout, one entry per write
    err,            \* the exception that ended the run, or "none"
    source,         \* text functions: the argument
    fn,             \* text functions: the call that produced `result`
    result          \* text functions: the value returned

vars == <<args, schedule, pc, i, talks, template, last_timeslot, wordlist, k,
          out, err, source, fn, result>>

pipeVars == <<args, schedule, pc, i, talks, template, last_timeslot, wordlist,
              k, out, err>>

textVars == <<source, fn, result>>

-----------------------------------------------------------------------------
(* Bounds of the model.                                                    *)

\* longest generated argument of escape_latex
MaxEscLen == 3
\* longest generated argument of get_wordlist
MaxWordLen == 4
\* longest generated argument of break_long_lines
MaxWrapLen == 4
\* most sessions in a generated schedule
MaxSessions == 3

-----------------------------------------------------------------------------
(* Characters and texts.                                                   *)

Lower == {"a", "b", "c", "d", "e", "f", "g", "h", "i", "j", "k", "l", "m",
          "n", "o", "p", "q", "r", "s", "t", "u", "v", "w", "x", "y", "z"}

Upper == {"A", "B", "C", "D", "E", "F", "G", "H", "I", "J", "K", "L", "M",
          "N", "O", "P", "Q", "R", "S", "T", "U", "V", "W", "X", "Y", "Z"}

Umlauts == {"U+00C4", "U+00D6", "U+00DC", "U+00E4", "U+00F6", "U+00FC"}

\* the characters textwrap treats as whitespace (textwrap._whitespace)
Whitespace == {"\t", "\n", "\r", " ", "U+000B", "U+000C"}

\* all texts over alphabet A of length at most n
TextsUpTo(A, n) == UNION {[1..m -> A] : m \in 0..n}

\* s[a..b], empty when a > b
Slice(s, a, b) == IF a > b THEN <<>> ELSE SubSeq(s, a, b)

\* whether text p occurs in s at position j
OccursAt(p, s, j) ==
    /\ j >= 1
    /\ j + Len(p) - 1 <= Len(s)
    /\ \A m \in 1..Len(p) : s[j + m - 1] = p[m]

\* the least element of a non-empty set of positions
First(S) == CHOOSE p \in S : \A q \in S : p <= q

\* the greatest element of a non-empty set of positions
Last(S) == CHOOSE p \in S : \A q \in S : q <= p

RECURSIVE ReplaceFrom(_, _, _, _)
\* str.replace(old, new) from position j on: leftmost, non-overlapping
ReplaceFrom(s, old, new, j) ==
    LET found == {p \in j..Len(s) : OccursAt(old, s, p)}
    IN IF found = {} THEN Slice(s, j, Len(s))
       ELSE Slice(s, j, First(found) - 1) \o new
            \o ReplaceFrom(s, old, new, First(found) + Len(old))

\* str.replace(old, new), old not empty
Replace(s, old, new) == ReplaceFrom(s, old, new, 1)

RECURSIVE SplitFrom(_, _, _)
\* str.split(sep) for a one-character sep: the fields from position j on
SplitFrom(s, sep, j) ==
    LET found == {p \in j..Len(s) : s[p] = sep}
    IN IF found = {} THEN <<Slice(s, j, Len(s))>>
       ELSE <<Slice(s, j, First(found) - 1)>>
            \o SplitFrom(s, sep, First(found) + 1)

\* str.split(sep): always at least one field, empty fields kept
Split(s, sep) == SplitFrom(s, sep, 1)

RECURSIVE Concat(_)
\* ''.join(parts)
Concat(parts) ==
    IF Len(parts) = 0 THEN <<>>
    ELSE IF Len(parts) = 1 THEN parts[1]
    ELSE LET h == Len(parts) \div 2
         IN Concat(Slice(parts, 1, h)) \o Concat(Slice(parts, h + 1, Len(parts)))

\* sep.join(parts)
Join(parts, sep) ==
    Concat([m \in 1..Len(parts) |->
              IF m = 1 THEN parts[m] ELSE sep \o parts[m]])

-----------------------------------------------------------------------------
(* escape_latex: the twelve rewrite rules of latex_substitutions, applied  *)
(* in order, each by re.sub (leftmost, non-overlapping matches).           *)

GenderSuffixes == << <<"i", "n", "n", "e", "n">>, <<"r">>, <<"n">> >>

ReservedChars == {"{", "}", "_", "#", "%", "&", "$"}

QuoteFollowers == {" ", ".", ",", ";", ":"}

\* the length of the match of rule r of latex_substitutions starting at
\* position j of s, 0 when it does not match there
MatchLen(r, s, j) ==
    CASE r = 1 ->
           \* ([a-z])\*(innen|r|n): the alternatives are tried in order
           IF s[j] \in Lower /\ OccursAt(<<"*">>, s, j + 1)
           THEN IF OccursAt(GenderSuffixes[1], s, j + 2) THEN 7
                ELSE IF OccursAt(GenderSuffixes[2], s, j + 2) THEN 3
                ELSE IF OccursAt(GenderSuffixes[3], s, j + 2) THEN 3
                ELSE 0
           ELSE 0
      [] r = 2 -> IF s[j] = "U+201E" THEN 1 ELSE 0
      [] r = 3 -> IF s[j] = "U+201C" THEN 1 ELSE 0
      [] r = 4 -> IF s[j] = "\\" THEN 1 ELSE 0
      [] r = 5 -> IF s[j] \in ReservedChars THEN 1 ELSE 0
      [] r = 6 -> IF s[j] = "~" THEN 1 ELSE 0
      [] r = 7 -> IF s[j] = "^" THEN 1 ELSE 0
      [] r = 8 -> IF OccursAt(<<" ", "\"">>, s, j) THEN 2 ELSE 0
      [] r = 9 ->
           IF s[j] = "\"" /\ j < Len(s) /\ s[j + 1] \in QuoteFollowers
           THEN 2 ELSE 0
      [] r = 10 -> IF j = 1 /\ s[j] = "\"" THEN 1 ELSE 0
      [] r = 11 ->
           \* "$ without re.MULTILINE: at the end, or before a final newline
           IF s[j] = "\""
              /\ (j = Len(s) \/ (j = Len(s) - 1 /\ s[Len(s)] = "\n"))
           THEN 1 ELSE 0
      [] r = 12 ->
           \* ([^ ]) (U+2013|-) followed by a space
           IF /\ j + 3 <= Len(s)
              /\ s[j] # " "
              /\ s[j + 1] = " "
              /\ s[j + 2] \in {"U+2013", "-"}
              /\ s[j + 3] = " "
           THEN 4 ELSE 0

\* what rule r puts in place of its match at position j of s
Replacement(r, s, j) ==
    CASE r = 1 ->
           \* the template r'\\1(\\2)': an escaped backslash, then "1", not
           \* a reference to group 1; likewise for group 2
           <<"\\", "1", "(", "\\", "2", ")">>
      [] r = 2 -> <<"\"">>
      [] r = 3 -> <<"\"">>
      [] r = 4 -> <<"\\", "t", "e", "x", "t", "b", "a", "c", "k", "s", "l",
                    "a", "s", "h">>
      [] r = 5 -> <<"\\", s[j]>>
      [] r = 6 -> <<"\\", "~", "{", "}">>
      [] r = 7 -> <<"\\", "^", "{", "}">>
      [] r = 8 -> <<" ", "\"", "U+0060">>
      [] r = 9 -> <<"\"", "'", s[j + 1]>>
      [] r = 10 -> <<"\"", "U+0060">>
      [] r = 11 -> <<"\"", "'">>
      [] r = 12 -> <<s[j], "~", "-", "-", " ">>

RECURSIVE SubFrom(_, _, _)
\* pattern.sub(repl, s) for rule r, from position j on: the leftmost match,
\* then the matches after it
SubFrom(r, s, j) ==
    LET found == {p \in j..Len(s) : MatchLen(r, s, p) > 0}
    IN IF found = {} THEN Slice(s, j, Len(s))
       ELSE Slice(s, j, First(found) - 1)
            \o Replacement(r, s, First(found))
            \o SubFrom(r, s, First(found) + MatchLen(r, s, First(found)))

\* the rules with the reserved characters escaped before the backslash
latex_substitutions_reordered(r, s) ==
    SubFrom(CASE r = 4 -> 5 [] r = 5 -> 4 [] OTHER -> r, s, 1)

\* latex_substitutions[r][0].sub(latex_substitutions[r][1], s)
latex_substitutions(r, s) == SubFrom(r, s, 1)

NumRules == 12

RECURSIVE ApplyRules(_, _)
\* the loop of escape_latex from rule r on
ApplyRules(r, s) ==
    IF r > NumRules THEN s
    ELSE ApplyRules(r + 1, latex_substitutions(r, s))

escape_latex(s) == ApplyRules(1, s)

-----------------------------------------------------------------------------
(* get_wordlist.                                                           *)

Punctuation == {"\"", "'", ".", ",", ";", ":", "[", "]", "(", ")", "-", "*"}

WordChars == {"-"} \cup Upper \cup Umlauts \cup Lower

\* RE_VALID_WORD.match(w) is not None: ^[-A-Z...a-z]{2,}$, where $ also
\* matches before a newline that ends w
RE_VALID_WORD(w) ==
    LET body == IF Len(w) > 0 /\ w[Len(w)] = "\n"
                THEN Slice(w, 1, Len(w) - 1) ELSE w
        AllWordChars(v) == Len(v) >= 2 /\ \A m \in 1..Len(v) : v[m] \in WordChars
    IN AllWordChars(w) \/ AllWordChars(body)

\* punctuation removed at the beginning only
StripPunctuation_start_only(word) ==
    IF word[1] \in Punctuation THEN Tail(word) ELSE word

\* lines 102-105, for a word of length at least 2: one punctuation character
\* removed at the beginning, then one at the end
StripPunctuation(word) ==
    LET w1 == IF word[1] \in Punctuation THEN Tail(word) ELSE word
    IN IF w1[Len(w1)] \in Punctuation THEN Slice(w1, 1, Len(w1) - 1) ELSE w1

RECURSIVE WordLoop(_)
\* the loop over words.split(" ")
WordLoop(tokens) ==
    IF tokens = <<>> THEN <<>>
    ELSE LET word == Head(tokens)
         IN IF Len(word) < 2 THEN WordLoop(Tail(tokens))
            ELSE LET w == StripPunctuation(word)
                 IN IF RE_VALID_WORD(w)
                    THEN <<w>> \o WordLoop(Tail(tokens))
                    ELSE WordLoop(Tail(tokens))

get_wordlist(text) ==
    LET words == Replace(Replace(text, <<"\r">>, <<>>), <<"\n">>, <<" ">>)
    IN WordLoop(Split(words, " "))

-----------------------------------------------------------------------------
(* break_long_lines, with textwrap.wrap(paragraph, 98,                     *)
(* break_on_hyphens=False) of the standard library.                        *)

WrapWidth == 98

RECURSIVE ExpandTabs(_, _, _)
\* str.expandtabs(8) from position j on, col being the column of position j:
\* a tab becomes the spaces up to the next multiple of 8, and the column
\* starts again at 0 after a newline or a carriage return
ExpandTabs(s, j, col) ==
    LET tabs == {p \in j..Len(s) : s[p] = "\t"}
        p == First(tabs)
        breaks == {q \in j..(p - 1) : s[q] \in {"\n", "\r"}}
        colAtTab == IF breaks = {} THEN col + (p - j) ELSE p - Last(breaks) - 1
        n == 8 - (colAtTab % 8)
    IN IF tabs = {} THEN Slice(s, j, Len(s))
       ELSE Slice(s, j, p - 1) \o [m \in 1..n |-> " "]
            \o ExpandTabs(s, p + 1, colAtTab + n)

\* TextWrapper._munge_whitespace: tabs expanded, then every whitespace
\* character turned into a space
MungeWhitespace(s) ==
    LET e == ExpandTabs(s, 1, 0)
    IN [m \in 1..Len(e) |-> IF e[m] \in Whitespace THEN " " ELSE e[m]]

IsBlank(chunk) == \A m \in 1..Len(chunk) : chunk[m] \in Whitespace

\* TextWrapper._split with break_on_hyphens=False: the maximal runs of
\* whitespace and of non-whitespace
Chunks(s) ==
    LET starts == {j \in 1..Len(s) :
                     j = 1 \/ (s[j] \in Whitespace) # (s[j - 1] \in Whitespace)}
        start(m) == CHOOSE j \in starts : Cardinality({q \in starts : q < j}) = m - 1
    IN [m \in 1..Cardinality(starts) |->
          Slice(s, start(m),
                IF m = Cardinality(starts) THEN Len(s) ELSE start(m + 1) - 1)]

\* the inner loop of _wrap_chunks: how many of the chunks, from the first
\* on, fit on a line of this width
TakeCount(chunks, width) ==
    Last({n \in 0..Len(chunks) : Len(Concat(Slice(chunks, 1, n))) <= width})

RECURSIVE WrapChunks(_, _, _)
\* TextWrapper._wrap_chunks (drop_whitespace, break_long_words, no indent,
\* no max_lines): the lines, given those built so far
WrapChunks(chunks, width, lines) ==
    IF chunks = <<>> THEN lines
    ELSE LET c0 == IF IsBlank(chunks[1]) /\ lines # <<>>
                   THEN Tail(chunks) ELSE chunks
             n == TakeCount(c0, width)
             taken == Slice(c0, 1, n)
             rest == Slice(c0, n + 1, Len(c0))
             long == rest # <<>> /\ Len(rest[1]) > width
             \* _handle_long_word
             space_left == width - Len(Concat(taken))
             cur_line == IF long
                         THEN Append(taken, Slice(rest[1], 1, space_left))
                         ELSE taken
             rest1 == IF long
                      THEN <<Slice(rest[1], space_left + 1, Len(rest[1]))>>
                           \o Tail(rest)
                      ELSE rest
             kept == IF cur_line # <<>> /\ IsBlank(cur_line[Len(cur_line)])
                     THEN Slice(cur_line, 1, Len(cur_line) - 1)
                     ELSE cur_line
         IN WrapChunks(rest1, width,
                       IF kept # <<>> THEN Append(lines, Concat(kept)) ELSE lines)

\* textwrap.wrap(paragraph, width, break_on_hyphens=False)
wrap(paragraph, width) ==
    WrapChunks(Chunks(MungeWhitespace(paragraph)), width, <<>>)

\* whether RE_SINGLE_NEWLINE matches at position j of s: its pattern is the
\* raw string ([^\\n])\\n, a character that is neither a backslash nor the
\* letter n, followed by a backslash and the letter n
SingleNewlineAt(s, j) ==
    /\ j + 2 <= Len(s)
    /\ s[j] \notin {"\\", "n"}
    /\ s[j + 1] = "\\"
    /\ s[j + 2] = "n"

RECURSIVE SingleNewlineSub(_, _)
\* RE_SINGLE_NEWLINE.sub("\\1\\n\\n", s) from position j on: group 1 and
\* two newlines in place of each match
SingleNewlineSub(s, j) ==
    LET found == {p \in j..Len(s) : SingleNewlineAt(s, p)}
    IN IF found = {} THEN Slice(s, j, Len(s))
       ELSE Slice(s, j, First(found) - 1)
            \o <<s[First(found)], "\n", "\n">>
            \o SingleNewlineSub(s, First(found) + 3)

RE_SINGLE_NEWLINE(s) == SingleNewlineSub(s, 1)

RECURSIVE WrapParagraphs(_)
\* the loop over the paragraphs (lines 117-122)
WrapParagraphs(splitted) ==
    IF splitted = <<>> THEN <<>>
    ELSE (IF Head(splitted) # <<>>
          THEN wrap(Head(splitted), WrapWidth)
          ELSE << <<>> >>)
         \o WrapParagraphs(Tail(splitted))

\* lines 124-126: two spaces before every line that is not empty
IndentLines(lines) ==
    [m \in 1..Len(lines) |->
        IF lines[m] # <<>> THEN <<" ", " ">> \o lines[m] ELSE lines[m]]

\* lines 128-130: result.replace("\n\n", "\n"), three times
CollapseNewlines(s) ==
    LET once(t) == Replace(t, <<"\n", "\n">>, <<"\n">>)
    IN once(once(once(s)))

break_long_lines(src) ==
    LET normalised == Replace(src, <<"\r", "\n">>, <<"\n">>)
        splitted == Split(RE_SINGLE_NEWLINE(normalised), "\n")
        lines == IndentLines(WrapParagraphs(splitted))
    IN CollapseNewlines(Join(lines, <<"\n">>))

-----------------------------------------------------------------------------
(* The text functions called on generated arguments.  `result` holds the   *)
(* values returned so far, oldest first.                                   *)

\* the script is not running
PipeIdle ==
    /\ args = [format |-> "None", workshops |-> FALSE,
               postersession |-> FALSE, day |-> "None"]
    /\ schedule = <<>>
    /\ pc = "idle"
    /\ i = 0
    /\ talks = <<>>
    /\ template = "unbound"
    /\ last_timeslot = <<"unbound">>
    /\ wordlist = <<>>
    /\ k = 0
    /\ out = <<>>
    /\ err = "none"

EscapeAlphabet ==
    {"a", "1", " ", "\\", "*", "\"", "-"} \cup ReservedChars

EscapeExamples ==
    { <<"x", "*", "i", "n", "n", "e", "n">>,
      <<"x", "*", "r">>,
      <<"x", "*", "n">>,
      <<"B", "e", "s", "u", "c", "h", "e", "r", "*", "i", "n", "n", "e", "n">>,
      <<"1", "0", "0", "%", " ", "&", " ", "{", "x", "}">>,
      <<"U+201E", "a", "U+201C", " ", "U+2013", " ", "b", "~", "^">>,
      <<"a", " ", "\"", "b", "\"", ".", " ", "\"">> }

EscapeInputs == TextsUpTo(EscapeAlphabet, MaxEscLen) \cup EscapeExamples

InitEscape ==
    /\ PipeIdle
    /\ source \in EscapeInputs
    /\ fn = "none"
    /\ result = <<>>

\* escape_latex(source)
CallEscape ==
    /\ fn = "none"
    /\ fn' = "escape_latex"
    /\ result' = <<escape_latex(source)>>
    /\ UNCHANGED <<source, pipeVars>>

\* escape_latex applied to the text it returned
CallEscapeAgain ==
    /\ fn = "escape_latex"
    /\ Len(result) = 1
    /\ result' = Append(result, escape_latex(result[1]))
    /\ UNCHANGED <<source, fn, pipeVars>>

NextEscape == CallEscape \/ CallEscapeAgain

SpecEscape == InitEscape /\ [][NextEscape]_vars

WordAlphabet == {"a", "B", "y", "1", "!", ",", "-", " ", "\n", "\r", "U+00FC"}

WordExamples ==
    { <<"H", "e", "l", "l", "o", ",", " ", "w", "o", "r", "l", "d", "!", " ",
        "A", "1", " ", "x", "y">>,
      <<"(", "a", "b", ")", " ", "\"", "c", "-", "d", "\"", "\r", "\n",
        "[", "[", "e", "f", "]", "]">> }

WordInputs == TextsUpTo(WordAlphabet, MaxWordLen) \cup WordExamples

InitWords ==
    /\ PipeIdle
    /\ source \in WordInputs
    /\ fn = "none"
    /\ result = <<>>

\* get_wordlist(source)
CallGetWordlist ==
    /\ fn = "none"
    /\ fn' = "get_wordlist"
    /\ result' = <<get_wordlist(source)>>
    /\ UNCHANGED <<source, pipeVars>>

NextWords == CallGetWordlist

SpecWords == InitWords /\ [][NextWords]_vars

WrapAlphabet == {"a", "b", " ", "\n", "\r", "\\", "n"}

\* nine newlines between two lines
NineNewlines == <<"a">> \o [m \in 1..9 |-> "\n"] \o <<"b">>

\* a paragraph of 150 characters, in words of nine letters
LongParagraph == [m \in 1..150 |-> IF m % 10 = 0 THEN " " ELSE "a"]

\* a word of 120 letters
LongWord == [m \in 1..120 |-> "b"]

WrapExamples ==
    { NineNewlines, LongParagraph, LongWord \o <<"\n", "a">>,
      <<"a", "b", "\r", "\n", "\r", "\n", "b", "a", "\n", "a">>,
      <<"a", "b", "\\", "n", "b", "a", " ", " ", "a">> }

WrapInputs == TextsUpTo(WrapAlphabet, MaxWrapLen) \cup WrapExamples

InitWrap ==
    /\ PipeIdle
    /\ source \in WrapInputs
    /\ fn = "none"
    /\ result = <<>>

\* break_long_lines(source)
CallBreakLongLines ==
    /\ fn = "none"
    /\ fn' = "break_long_lines"
    /\ result' = <<break_long_lines(source)>>
    /\ UNCHANGED <<source, pipeVars>>

NextWrap == CallBreakLongLines

SpecWrap == InitWrap /\ [][NextWrap]_vars

-----------------------------------------------------------------------------
(* Properties of the text functions.                                       *)

Digits == {"0", "1", "2", "3", "4", "5", "6", "7", "8", "9"}

TextBackslash ==
    <<"\\", "t", "e", "x", "t", "b", "a", "c", "k", "s", "l", "a", "s", "h">>

\* C7: escape_latex turns a lowercase letter followed by '*' and one of
\* 'innen', 'r', 'n' into the letter followed by the suffix in parentheses:
\* 'x*innen' becomes 'x(innen)', 'x*r' becomes 'x(r)', 'x*n' becomes 'x(n)'.
C7_GenderSuffixParenthesised ==
    fn = "escape_latex" =>
        \A c \in Lower : \A m \in 1..3 :
            source = <<c, "*">> \o GenderSuffixes[m]
                => result[1] = <<c, "(">> \o GenderSuffixes[m] \o <<")">>

\* the alphabet of C8: letters, digits, spaces, backslashes, reserved characters
PlainAndReserved == Lower \cup Upper \cup Digits \cup {" ", "\\"} \cup ReservedChars

\* s with every reserved character prefixed by one backslash and every
\* backslash of s replaced by \textbackslash
Backslashed(s) ==
    Concat([m \in 1..Len(s) |->
              IF s[m] \in ReservedChars THEN <<"\\", s[m]>>
              ELSE IF s[m] = "\\" THEN TextBackslash
              ELSE <<s[m]>>])

HundredPercent == <<"1", "0", "0", "%", " ", "&", " ", "{", "x", "}">>

\* C8: on a text of letters, digits, spaces, backslashes and reserved
\* characters, escape_latex prefixes each reserved character of its argument
\* with exactly one backslash and replaces each backslash of its argument by
\* \textbackslash, without escaping what it inserted; applied to its own
\* output it does the same to that output, which changes it whenever the
\* argument held a reserved character.
C8_EscapeReserved ==
    (\A m \in 1..Len(source) : source[m] \in PlainAndReserved) =>
        /\ (fn = "escape_latex" /\ Len(result) >= 1)
               => result[1] = Backslashed(source)
        /\ (fn = "escape_latex" /\ Len(result) >= 2)
               => /\ result[2] = Backslashed(result[1])
                  /\ (\E m \in 1..Len(source) : source[m] \in ReservedChars)
                         => result[2] # result[1]

C8_Witness ==
    /\ fn = "escape_latex"
    /\ source = HundredPercent
    /\ Len(result) = 2
    /\ result[1] = <<"1", "0", "0", "\\", "%", " ", "\\", "&", " ",
                     "\\", "{", "x", "\\", "}">>
    /\ result[2] # result[1]

HelloWorld ==
    <<"H", "e", "l", "l", "o", ",", " ", "w", "o", "r", "l", "d", "!", " ",
      "A", "1", " ", "x", "y">>

\* the tokens of a text: separated by spaces, a newline counting as a space
\* and carriage returns being dropped
TokensOf(text) ==
    LET t == SelectSeq(text, LAMBDA c : c # "\r")
    IN Split([m \in 1..Len(t) |-> IF t[m] = "\n" THEN " " ELSE t[m]], " ")

\* a token of length at least 2 without one listed punctuation character at
\* its start and, of what is left, at its end
Unpunctuated(t) ==
    LET a == IF t[1] \in Punctuation THEN 1 ELSE 0
        b == IF t[Len(t)] \in Punctuation THEN 1 ELSE 0
    IN Slice(t, 1 + a, Len(t) - b)

IsWord(w) ==
    /\ Len(w) >= 2
    /\ \A m \in 1..Len(w) : w[m] \in Upper \cup Lower \cup Umlauts \cup {"-"}

\* the words of a text as the Word Extractor's contract describes them
WordsOf(text) ==
    LET Kept(t) == Len(t) >= 2 /\ IsWord(Unpunctuated(t))
        kept == SelectSeq(TokensOf(text), Kept)
    IN [m \in 1..Len(kept) |-> Unpunctuated(kept[m])]

C9_General == fn = "get_wordlist" => result[1] = WordsOf(source)

\* C9 as claimed: get_wordlist('Hello, world! A1 xy') is ['Hello', 'world'],
\* and in general the result is the tokens that are words once unpunctuated.
C9_AsClaimed ==
    /\ (fn = "get_wordlist" /\ source = HelloWorld)
           => result[1] = << <<"H", "e", "l", "l", "o">>,
                             <<"w", "o", "r", "l", "d">> >>
    /\ C9_General

\* C9, amended: get_wordlist('Hello, world! A1 xy') is ['Hello', 'xy'], and
\* in general the result is, in order of appearance, the space-separated
\* tokens of length at least 2 that, without at most one listed punctuation
\* character at the start and at most one at the end, consist of two or more
\* characters among A-Z, a-z, the umlaut letters and the hyphen.
C9_WordExtractor ==
    /\ (fn = "get_wordlist" /\ source = HelloWorld)
           => result[1] = << <<"H", "e", "l", "l", "o">>, <<"x", "y">> >>
    /\ C9_General

C9_Witness ==
    /\ fn = "get_wordlist"
    /\ source = HelloWorld
    /\ result[1] = << <<"H", "e", "l", "l", "o">>, <<"x", "y">> >>

ShortLines == {<<"a">>, <<"b">>, <<"a", "b">>}

\* two lines of the output with one blank line between them
WithBlankLine(l1, l2) ==
    <<" ", " ">> \o l1 \o <<"\n", "\n">> \o <<" ", " ">> \o l2

\* C10: break_long_lines keeps paragraph boundaries as blank lines: of two
\* short lines separated by a single newline it returns the two lines, each
\* after two spaces, with exactly one blank line between them, and of two
\* paragraphs separated by one or more blank lines it returns the same.
C10_ParagraphBreaksKept ==
    fn = "break_long_lines" =>
        \A l1 \in ShortLines, l2 \in ShortLines :
            \A n \in 1..9 :
                source = l1 \o [m \in 1..n |-> "\n"] \o l2
                    => result[1] = WithBlankLine(l1, l2)

-----------------------------------------------------------------------------
(* The script: command line, schedule, loader loop, sort, render loop.     *)

\* talk["type"] of a workshop, "Workshop (Pr\u00e4senz)" in the source
WorkshopType == "Workshop (Praesenz)"

PosterType == "Poster-Session"

rooms_order ==
    "HS1 (ZHG 011)" :> 1 @@ "HS2 (ZHG 010)" :> 2 @@ "HS3 (ZHG 009)" :> 3 @@
    "HS4 (ZHG 008)" :> 4 @@ "BoF1 (ZHG 001)" :> 5 @@ "BoF2 (ZHG 005)" :> 6 @@
    "Bof3/Expert:innen (ZHG 006)" :> 7 @@ "WS1 (VG 1.104)" :> 8 @@
    "WS2 (VG 1.103)" :> 9 @@ "WS3 (VG 1.102)" :> 10 @@
    "Opening OSM (MH 09)" :> 11 @@ "OSM1 (MH 11)" :> 12 @@
    "OSM2 (MH 10)" :> 13 @@ "OSM3 (MH 13" :> 14 @@ "Poster (Zelt)" :> 15 @@
    "FOSSGIS-Stand" :> 16

commands ==
    "HS1 (ZHG 011)" :> [name |-> "HS1 (ZHG 011)", command |-> "\\abstractHSeins"] @@
    "HS2 (ZHG 010)" :> [name |-> "HS2 (ZHG 010)", command |-> "\\abstractHSzwei"] @@
    "HS3 (ZHG 009)" :> [name |-> "HS3 (ZHG 009)", command |-> "\\abstractHSdrei"] @@
    "HS4 (ZHG 008)" :> [name |-> "HS4 (ZHG 008)", command |-> "\\abstractHSvier"] @@
    "Bof1 (ZHG 001)" :> [name |-> "Bof1 (ZHG 001)", command |-> "\\abstractAnwBoFeins"] @@
    "Bof2 (ZHG 005)" :> [name |-> "BoF2 (ZHG 005)", command |-> "\\abstractAnwBoFzwei"] @@
    "Bof3/Expert:innen (ZHG 006)" :>
        [name |-> "BoF3/Expert:innen (ZHG 006)", command |-> "\\abstractAnwBoFdrei"]

default_cmd == [name |-> "???", command |-> "\\abstractOther"]

\* a timestamp is <<minutes of local time, minutes of UTC offset>>, what
\* strptime keeps of a "date" field in DATE_FORMAT; two datetimes compare by
\* the instant they denote
Instant(d) == d[1] - d[2]

\* the code points of the characters a word can hold
CodePoint ==
    "-" :> 45 @@ "A" :> 65 @@ "B" :> 66 @@ "C" :> 67 @@ "D" :> 68 @@
    "E" :> 69 @@ "F" :> 70 @@ "G" :> 71 @@ "H" :> 72 @@ "I" :> 73 @@
    "J" :> 74 @@ "K" :> 75 @@ "L" :> 76 @@ "M" :> 77 @@ "N" :> 78 @@
    "O" :> 79 @@ "P" :> 80 @@ "Q" :> 81 @@ "R" :> 82 @@ "S" :> 83 @@
    "T" :> 84 @@ "U" :> 85 @@ "V" :> 86 @@ "W" :> 87 @@ "X" :> 88 @@
    "Y" :> 89 @@ "Z" :> 90 @@ "a" :> 97 @@ "b" :> 98 @@ "c" :> 99 @@
    "d" :> 100 @@ "e" :> 101 @@ "f" :> 102 @@ "g" :> 103 @@ "h" :> 104 @@
    "i" :> 105 @@ "j" :> 106 @@ "k" :> 107 @@ "l" :> 108 @@ "m" :> 109 @@
    "n" :> 110 @@ "o" :> 111 @@ "p" :> 112 @@ "q" :> 113 @@ "r" :> 114 @@
    "s" :> 115 @@ "t" :> 116 @@ "u" :> 117 @@ "v" :> 118 @@ "w" :> 119 @@
    "x" :> 120 @@ "y" :> 121 @@ "z" :> 122 @@ "U+00C4" :> 196 @@
    "U+00D6" :> 214 @@ "U+00DC" :> 220 @@ "U+00E4" :> 228 @@
    "U+00F6" :> 246 @@ "U+00FC" :> 252

RECURSIVE StrLess(_, _)
\* a < b for Python strings: by code point, a proper prefix first
StrLess(a, b) ==
    IF b = <<>> THEN FALSE
    ELSE IF a = <<>> THEN TRUE
    ELSE IF a[1] = b[1] THEN StrLess(Tail(a), Tail(b))
    ELSE CodePoint[a[1]] < CodePoint[b[1]]

\* the subset of html.entities.html5 the model knows: name |-> character
html5 ==
    <<"a", "m", "p", ";">> :> "&" @@ <<"a", "m", "p">> :> "&" @@
    <<"l", "t", ";">> :> "<" @@ <<"l", "t">> :> "<" @@
    <<"g", "t", ";">> :> ">" @@ <<"g", "t">> :> ">" @@
    <<"q", "u", "o", "t", ";">> :> "\"" @@ <<"q", "u", "o", "t">> :> "\""

EntityStops == {"\t", "\n", "U+000C", " ", "<", "&", "#", ";"}

\* the last position of the run [^\t\n\f <&#;]{1,32} that starts at position
\* j of s; j - 1 when the run is empty
EntityNameEnd(s, j) ==
    LET stops == {p \in j..Len(s) : s[p] \in EntityStops} \cup {Len(s) + 1, j + 32}
    IN First(stops) - 1

RECURSIVE LongestEntityPrefix(_, _)
\* html._replace_charref for a named reference: the longest prefix of name,
\* of length x down to 2, that html5 knows; 0 when there is none
LongestEntityPrefix(name, x) ==
    IF x < 2 THEN 0
    ELSE IF Slice(name, 1, x) \in DOMAIN html5 THEN x
    ELSE LongestEntityPrefix(name, x - 1)

RECURSIVE UnescapeFrom(_, _)
\* html.unescape from position j on (named references only: the generated
\* texts hold no '#')
UnescapeFrom(s, j) ==
    LET amps == {p \in j..Len(s) : s[p] = "&"}
        a == First(amps)
        e == EntityNameEnd(s, a + 1)
        last == IF e >= a + 1 /\ e < Len(s) /\ s[e + 1] = ";"
                THEN e + 1 ELSE e
        name == Slice(s, a + 1, last)
        x == LongestEntityPrefix(name, Len(name) - 1)
    IN IF amps = {} THEN Slice(s, j, Len(s))
       ELSE Slice(s, j, a - 1)
            \o (IF e < a + 1 THEN <<"&">>
                ELSE IF name \in DOMAIN html5 THEN <<html5[name]>>
                ELSE IF x > 0
                     THEN <<html5[Slice(name, 1, x)]>> \o Slice(name, x + 1, Len(name))
                ELSE <<"&">> \o name)
            \o UnescapeFrom(s, IF e < a + 1 THEN a + 1 ELSE last + 1)

html_unescape(s) == UnescapeFrom(s, 1)

-----------------------------------------------------------------------------
(* Inputs.  A session carries the date of the day that contains it; the    *)
(* loader visits the days in order, and within a day the rooms and their   *)
(* sessions in order, so a schedule is the sequence of sessions in that    *)
(* order.                                                                  *)

Day1 == "2026-03-25"

Day2 == "2026-03-26"

Formats == {"tex", "txt", "wordlist", "pdf", "None"}

\* args.day: "None" when --day is not given, else a date in the format that
\* the option's help names
DayArgs == {"None", Day1, Day2}

ArgsSet ==
    [format : Formats, workshops : BOOLEAN, postersession : BOOLEAN,
     day : DayArgs]

SessionPool == {
    [day |-> Day1, type |-> "Vortrag", date |-> <<600, 60>>,
     title |-> <<"a", "p", "f", "e", "l">>,
     room |-> "HS2 (ZHG 010)",
     abstract |-> <<"H", "e", "l", "l", "o", ",", " ", "w", "o", "r", "l", "d", "!", " ", "A", "1", " ", "x", "y">>,
     persons |-> <<<<"A", "d", "a">>, <<"B", "o">>>>, slug |-> "apfel"],
    [day |-> Day1, type |-> "Vortrag", date |-> <<540, 0>>,
     title |-> <<"Z", "e", "b", "r", "a">>,
     room |-> "HS1 (ZHG 011)",
     abstract |-> <<"D", "a", "t", "e", "n", " ", "&", "a", "m", "p", ";", " ", "K", "a", "r", "t", "e", "n", "\n", "x", "y", "-", "z">>,
     persons |-> <<<<"C", "y">>>>, slug |-> "zebra"],
    [day |-> Day1, type |-> "Vortrag", date |-> <<600, 60>>,
     title |-> <<"B", "o", "o", "t">>,
     room |-> "HS2 (ZHG 010)",
     abstract |-> <<"x", "y", " ", "a", "b">>,
     persons |-> <<>>, slug |-> "boot"],
    [day |-> Day2, type |-> "Vortrag", date |-> <<1920, 60>>,
     title |-> <<"N", "a", "c", "h", "t">>,
     room |-> "BoF1 (ZHG 001)",
     abstract |-> <<>>,
     persons |-> <<<<"B", "o">>>>, slug |-> "nacht"],
    [day |-> Day1, type |-> WorkshopType, date |-> <<480, 60>>,
     title |-> <<"K", "u", "r", "s">>,
     room |-> "WS1 (VG 1.104)",
     abstract |-> <<"x", "y", " ", "a", "b">>,
     persons |-> <<<<"A", "d", "a">>>>, slug |-> "kurs"],
    [day |-> Day2, type |-> PosterType, date |-> <<2100, 60>>,
     title |-> <<"P", "o", "s", "t", "e", "r">>,
     room |-> "Poster (Zelt)",
     abstract |-> <<"a", "b">>,
     persons |-> <<<<"B", "o">>>>, slug |-> "poster"],
    [day |-> Day2, type |-> "Vortrag", date |-> <<1920, 60>>,
     title |-> <<"F", "o", "y", "e", "r">>,
     room |-> "Foyer",
     abstract |-> <<"i", "m", " ", "F", "o", "y", "e", "r">>,
     persons |-> <<<<"C", "y">>>>, slug |-> "foyer"]
    }

RECURSIVE SchedulesOfLen(_)
\* the sequences of n different sessions
SchedulesOfLen(n) ==
    IF n = 0 THEN {<<>>}
    ELSE {Append(sch, x) : <<sch, x>> \in
            {<<sch, x>> \in SchedulesOfLen(n - 1) \X SessionPool :
                \A m \in 1..Len(sch) : sch[m] # x}}

Schedules == UNION {SchedulesOfLen(n) : n \in 0..MaxSessions}

TextIdle ==
    /\ source = <<>>
    /\ fn = "none"
    /\ result = <<>>

Init ==
    /\ args \in ArgsSet
    /\ schedule \in Schedules
    /\ pc = "load"
    /\ i = 1
    /\ talks = <<>>
    /\ template = "unbound"
    /\ last_timeslot = <<"unbound">>
    /\ wordlist = <<>>
    /\ k = 0
    /\ out = <<>>
    /\ err = "none"
    /\ TextIdle

-----------------------------------------------------------------------------
(* The loader loop (lines 150-176).                                        *)

\* line 151: the day is skipped
SkipDay(a, date) == a.day \notin {"None", ""} /\ date # a.day

\* the type filter without its poster branches
SkipType_workshops_only(a, type) ==
    IF a.workshops /\ type # WorkshopType THEN TRUE
    ELSE IF ~a.workshops /\ type = WorkshopType THEN TRUE
    ELSE FALSE

\* lines 155-162: the session is skipped
SkipType(a, type) ==
    IF a.workshops /\ type # WorkshopType THEN TRUE
    ELSE IF ~a.workshops /\ type = WorkshopType THEN TRUE
    ELSE IF a.postersession /\ type # PosterType THEN TRUE
    ELSE IF ~a.postersession /\ type = PosterType THEN TRUE
    ELSE FALSE

\* lines 163-176: the talk record of a session
TalkRecord(s) ==
    [date |-> s.date,
     title |-> s.title,
     room |-> s.room,
     abstract |-> break_long_lines(html_unescape(s.abstract)),
     speakers |-> Join(s.persons, <<",", " ">>),
     slug |-> s.slug,
     type |-> s.type]

\* one session of the loader loop
LoadSession ==
    /\ pc = "load"
    /\ i <= Len(schedule)
    /\ talks' = IF SkipDay(args, schedule[i].day)
                   \/ SkipType(args, schedule[i].type)
                THEN talks
                ELSE Append(talks, TalkRecord(schedule[i]))
    /\ i' = i + 1
    /\ UNCHANGED <<args, schedule, pc, template, last_timeslot, wordlist, k,
                   out, err, textVars>>

-----------------------------------------------------------------------------
(* talks.sort (line 180).                                                  *)

\* what the key function gives when rooms_order has no such room
KeyError == <<>>

\* the key of line 179, without the room
sort_key_date_only(t) ==
    IF t.room \in DOMAIN rooms_order THEN <<Instant(t.date), 0>> ELSE KeyError

\* a key whose lookup falls back to a rank, as commands.get does
sort_key_with_default(t) ==
    <<Instant(t.date),
      IF t.room \in DOMAIN rooms_order THEN rooms_order[t.room] ELSE 0>>

\* the key function of line 180: (t["date"], rooms_order[t["room"]])
sort_key(t) ==
    IF t.room \in DOMAIN rooms_order
    THEN <<Instant(t.date), rooms_order[t.room]>>
    ELSE KeyError

\* a < b for two keys
KeyLess(a, b) == a[1] < b[1] \/ (a[1] = b[1] /\ a[2] < b[2])

RECURSIVE InsertByKey(_, _)
\* x put into the sorted list xs, after the elements whose key is not greater
InsertByKey(xs, x) ==
    IF xs = <<>> THEN <<x>>
    ELSE IF KeyLess(sort_key(x), sort_key(Head(xs)))
         THEN <<x>> \o xs
         ELSE <<Head(xs)>> \o InsertByKey(Tail(xs), x)

RECURSIVE SortedByKey(_)
\* list.sort(key=...): a stable sort
SortedByKey(xs) ==
    IF xs = <<>> THEN <<>>
    ELSE InsertByKey(SortedByKey(Slice(xs, 1, Len(xs) - 1)), xs[Len(xs)])

\* the loader loop is over: the keys of all talks are computed, then the
\* list is sorted
SortTalks ==
    /\ pc = "load"
    /\ i > Len(schedule)
    /\ IF \E m \in 1..Len(talks) : sort_key(talks[m]) = KeyError
       THEN /\ pc' = "failed"
            /\ err' = "KeyError"
            /\ UNCHANGED talks
       ELSE /\ pc' = "setup"
            /\ talks' = SortedByKey(talks)
            /\ UNCHANGED err
    /\ UNCHANGED <<args, schedule, i, template, last_timeslot, wordlist, k,
                   out, textVars>>

-----------------------------------------------------------------------------
(* The template and the render loop (lines 183-217).                       *)

\* lines 183-200; the template file is taken to exist
Setup ==
    /\ pc = "setup"
    /\ template' = IF args.format = "tex" THEN "template" ELSE "None"
    /\ last_timeslot' = <<>>
    /\ wordlist' = <<>>
    /\ k' = 1
    /\ pc' = "render"
    /\ UNCHANGED <<args, schedule, i, talks, out, err, textVars>>

\* a render that is handed the talk's own timestamp
talk2tex_current(tmpl, item, last) ==
    [kind |-> "render", template |-> tmpl,
     command |-> (IF item.room \in DOMAIN commands
                  THEN commands[item.room] ELSE default_cmd).command,
     last_timeslot |-> item.date, default_cmd |-> default_cmd, item |-> item]

\* talk2tex: the context handed to template.render, whose text the template
\* decides
talk2tex(tmpl, item, last) ==
    [kind |-> "render", template |-> tmpl,
     command |-> (IF item.room \in DOMAIN commands
                  THEN commands[item.room] ELSE default_cmd).command,
     last_timeslot |-> last, default_cmd |-> default_cmd, item |-> item]

\* "{} {}\n".format(t["title"], t["abstract"])
TitleAndAbstract(t) == t.title \o <<" ">> \o t.abstract \o <<"\n">>

\* one talk of the render loop (lines 201-213)
RenderTalk ==
    /\ pc = "render"
    /\ k <= Len(talks)
    /\ LET t == talks[k]
       IN CASE args.format = "txt" ->
                 /\ out' = Append(out, [kind |-> "text",
                                        text |-> TitleAndAbstract(t)])
                 /\ last_timeslot' = t.date
                 /\ k' = k + 1
                 /\ UNCHANGED <<wordlist, pc, err>>
            [] args.format = "tex" ->
                 /\ out' = Append(out, talk2tex(template, t, last_timeslot))
                 /\ last_timeslot' = t.date
                 /\ k' = k + 1
                 /\ UNCHANGED <<wordlist, pc, err>>
            [] args.format = "wordlist" ->
                 /\ wordlist' = wordlist \o get_wordlist(TitleAndAbstract(t))
                 /\ last_timeslot' = t.date
                 /\ k' = k + 1
                 /\ UNCHANGED <<out, pc, err>>
            [] OTHER ->
                 /\ pc' = "failed"
                 /\ err' = "Exception"
                 /\ UNCHANGED <<out, wordlist, last_timeslot, k>>
    /\ UNCHANGED <<args, schedule, i, talks, template, textVars>>

\* the list left as it is
wordlist_unsorted(ws) == ws

RECURSIVE InsertWord(_, _)
\* w put into the sorted list ws, after the words that are not greater
InsertWord(ws, w) ==
    IF ws = <<>> THEN <<w>>
    ELSE IF StrLess(w, Head(ws))
         THEN <<w>> \o ws
         ELSE <<Head(ws)>> \o InsertWord(Tail(ws), w)

RECURSIVE wordlist_sort(_)
\* wordlist.sort()
wordlist_sort(ws) ==
    IF ws = <<>> THEN <<>>
    ELSE InsertWord(wordlist_sort(Slice(ws, 1, Len(ws) - 1)), ws[Len(ws)])

\* the render loop is over (lines 215-217)
Finish ==
    /\ pc = "render"
    /\ k > Len(talks)
    /\ IF args.format = "wordlist"
       THEN /\ wordlist' = wordlist_sort(wordlist)
            /\ out' = Append(out, [kind |-> "text",
                                   text |-> Join(wordlist_sort(wordlist), <<"\n">>)])
       ELSE UNCHANGED <<wordlist, out>>
    /\ pc' = "done"
    /\ UNCHANGED <<args, schedule, i, talks, template, last_timeslot, k, err,
                   textVars>>

Next == LoadSession \/ SortTalks \/ Setup \/ RenderTalk \/ Finish

Spec == Init /\ [][Next]_vars

-----------------------------------------------------------------------------
(* Properties of the script.                                               *)

\* what the loader retains as C1 claims it: --workshops decides alone when set
ClaimedRetained(a, s) ==
    /\ a.day = "None" \/ s.day = a.day
    /\ IF a.workshops THEN s.type = WorkshopType
       ELSE IF a.postersession THEN s.type = PosterType
       ELSE s.type \notin {WorkshopType, PosterType}

\* what the loader retains: nothing when both flags are set
Retained(a, s) ==
    /\ a.day = "None" \/ s.day = a.day
    /\ IF a.workshops /\ a.postersession THEN FALSE
       ELSE IF a.workshops THEN s.type = WorkshopType
       ELSE IF a.postersession THEN s.type = PosterType
       ELSE s.type \notin {WorkshopType, PosterType}

\* the number of talk records of a session
TalkCount(s) == Cardinality({m \in 1..Len(talks) : talks[m].slug = s.slug})

\* C1 as claimed: a session the loader has visited has one talk record if
\* --day is absent or names its day and its type passes the mode filter
\* (--workshops: workshops; else --postersession: poster sessions; else
\* neither kind), and none otherwise.
C1_AsClaimed ==
    /\ \A j \in 1..(i - 1) :
          TalkCount(schedule[j]) =
              IF ClaimedRetained(args, schedule[j]) THEN 1 ELSE 0
    /\ Len(talks) =
          Cardinality({j \in 1..(i - 1) : ClaimedRetained(args, schedule[j])})

\* C1, amended: a session the loader has visited has exactly one talk record
\* if (a) --day is absent or names its day and (b) its type passes
\* the mode filter: with --workshops and --postersession both set nothing
\* passes; with only --workshops the workshops; with only --postersession the
\* poster sessions; with neither the sessions of neither kind.  Every other
\* session has no talk record.
C1_LoaderFilter ==
    /\ \A j \in 1..(i - 1) :
          TalkCount(schedule[j]) =
              IF Retained(args, schedule[j]) THEN 1 ELSE 0
    /\ Len(talks) =
          Cardinality({j \in 1..(i - 1) : Retained(args, schedule[j])})

C1_Witness ==
    /\ pc = "load"
    /\ Len(schedule) = 3
    /\ i > Len(schedule)
    /\ args.day = Day1
    /\ \E j \in 1..3 : Retained(args, schedule[j])
    /\ \E j \in 1..3 : schedule[j].day # Day1
    /\ \E j \in 1..3 : schedule[j].day = Day1 /\ ~Retained(args, schedule[j])
    /\ Len(talks) = 1

\* the sort has run and returned
Sorted ==
    pc \in {"setup", "render", "done"} \/ (pc = "failed" /\ err = "Exception")

RetainedSessions == {j \in 1..Len(schedule) : Retained(args, schedule[j])}

\* where the session of a talk stands in the schedule
LoadPosition(t) == CHOOSE j \in 1..Len(schedule) : schedule[j].slug = t.slug

\* C2: after the sort the talks are the retained talks, each once, and of two
\* consecutive talks a, b either a is earlier than b, or they are at the same
\* time and the rank of a's room is at most that of b's; two talks of equal
\* time and rank stand in their loading order.
C2_SortedOrder ==
    Sorted =>
        /\ Len(talks) = Cardinality(RetainedSessions)
        /\ \A j \in RetainedSessions : TalkCount(schedule[j]) = 1
        /\ \A m \in 1..(Len(talks) - 1) :
              LET a == talks[m]
                  b == talks[m + 1]
              IN /\ \/ Instant(a.date) < Instant(b.date)
                    \/ /\ Instant(a.date) = Instant(b.date)
                       /\ rooms_order[a.room] <= rooms_order[b.room]
                 /\ (Instant(a.date) = Instant(b.date)
                     /\ rooms_order[a.room] = rooms_order[b.room])
                        => LoadPosition(a) < LoadPosition(b)

C2_Witness ==
    /\ pc = "render"
    /\ Len(schedule) = 3
    /\ schedule[1].slug = "nacht"
    /\ schedule[2].slug = "boot"
    /\ schedule[3].slug = "zebra"
    /\ [m \in 1..Len(talks) |-> talks[m].slug] = <<"zebra", "boot", "nacht">>

\* C3: a run whose format is none of 'tex', 'txt', 'wordlist' never completes
\* successfully.
C3_UnsupportedFormatFatal ==
    args.format \notin {"tex", "txt", "wordlist"} => pc # "done"

\* some retained session is in a room that rooms_order does not know
UnknownRoomRetained ==
    \E j \in 1..Len(schedule) :
        /\ Retained(args, schedule[j])
        /\ schedule[j].room \notin DOMAIN rooms_order

\* C4: when a retained talk is in a room that rooms_order does not know, the
\* run does not get past the sort, where it ends with a KeyError, in every
\* output mode and with nothing written; and a KeyError ends a run only then,
\* so not because of a session that the filters removed.
C4_UnknownRoomAborts ==
    /\ UnknownRoomRetained =>
          /\ pc \in {"load", "failed"}
          /\ pc = "failed" => err = "KeyError"
          /\ out = <<>>
    /\ (UnknownRoomRetained /\ pc = "load" /\ i > Len(schedule))
          => ENABLED SortTalks
    /\ err = "KeyError" => (pc = "failed" /\ UnknownRoomRetained)
    /\ (pc = "failed" /\ err = "KeyError") => out = <<>>

C4_Witness ==
    /\ pc = "failed"
    /\ err = "KeyError"
    /\ args.format = "txt"
    /\ Len(talks) = 3
    /\ talks[2].room \notin DOMAIN rooms_order
    /\ out = <<>>

\* the value last_timeslot must have when talk number m is rendered
TimeslotBefore(m) == IF m = 1 THEN <<>> ELSE talks[m - 1].date

C5_Handed ==
    /\ pc = "render" => last_timeslot = TimeslotBefore(k)
    /\ args.format = "tex" =>
          \A m \in 1..Len(out) : out[m].last_timeslot = TimeslotBefore(m)

C5_Step ==
    /\ last_timeslot' # last_timeslot =>
          \/ pc = "setup" /\ last_timeslot' = <<>>
          \/ /\ pc = "render"
             /\ k <= Len(talks)
             /\ args.format \in {"tex", "txt", "wordlist"}
             /\ last_timeslot' = talks[k].date
    /\ (pc = "render" /\ k' = k + 1) => last_timeslot' = talks[k].date

\* C5: the render of the first talk in sorted order is handed the empty
\* sentinel as last timeslot, the render of every later talk the timestamp of
\* the talk before it; the variable is set to the talk's timestamp after each
\* talk in all three modes, and otherwise only its initialisation changes it.
C5_LastTimeslot == []C5_Handed /\ [][C5_Step]_vars

C5_Witness ==
    /\ pc = "render"
    /\ args.format = "tex"
    /\ k = 3
    /\ Len(out) = 2
    /\ out[1].last_timeslot = <<>>
    /\ out[2].last_timeslot = talks[1].date
    /\ last_timeslot = talks[2].date
    /\ talks[1].date # talks[2].date

\* the words of every talk's '<title> <abstract>'
AllWords ==
    Concat([m \in 1..Len(talks) |->
              WordsOf(talks[m].title \o <<" ">> \o talks[m].abstract)])

\* what has been written, as one text
OutputText == Concat([m \in 1..Len(out) |-> out[m].text])

OutputLines == IF OutputText = <<>> THEN <<>> ELSE Split(OutputText, "\n")

Occurrences(seq, x) == Cardinality({m \in 1..Len(seq) : seq[m] = x})

\* C6: in wordlist mode nothing is written before the last talk is processed;
\* the output is then the words of every talk's '<title> <abstract>', all of
\* them with their duplicates, in ascending lexicographic order, joined by
\* single newlines, with no newline at the end.
C6_WordlistOutput ==
    args.format = "wordlist" =>
        /\ pc # "done" => out = <<>>
        /\ pc = "done" =>
              /\ Len(OutputLines) = Len(AllWords)
              /\ \A m \in 1..Len(AllWords) :
                    Occurrences(OutputLines, AllWords[m])
                        = Occurrences(AllWords, AllWords[m])
              /\ \A m \in 1..(Len(OutputLines) - 1) :
                    ~StrLess(OutputLines[m + 1], OutputLines[m])

C6_Witness ==
    /\ args.format = "wordlist"
    /\ pc = "done"
    /\ Len(talks) = 3
    /\ Occurrences(OutputLines, <<"x", "y">>) = 2
    /\ OutputLines[1] = <<"B", "o", "o", "t">>
    /\ OutputLines[Len(OutputLines)] = <<"x", "y", "-", "z">>
    /\ OutputLines # AllWords

====
